---- MODULE Spec2Model ----
(***************************************************************************)
(* Food search, retry and cache pipeline of the nutrition client           *)
(* (searchProductsByName, cacheSearchResults, generateTempId,              *)
(* addFoodToMeal).                                                         *)
(*                                                                         *)
(* Text is a sequence of UTF-16 code units, a JavaScript object is a       *)
(* record, and a property that is undefined or null is a field that is     *)
(* absent from the record.  Code between two awaits runs atomically (one   *)
(* JavaScript thread), so every action runs from the completion of one     *)
(* await to the start of the next.                                         *)
(***************************************************************************)
EXTENDS Integers, Sequences, FiniteSets, Bags, TLC

(***************************************************************************)
(* Bounds of the model.                                                    *)
(***************************************************************************)
\* longest array the search endpoint answers with
MaxLen == 2
\* Date.now() takes the values 0..MaxNow
MaxNow == 1
\* longest array the search endpoint answers with when calls run concurrently
MaxConcLen == 2

(***************************************************************************)
(* Text constants of the source.                                           *)
(***************************************************************************)
\* "404"
str404 ==
    <<52, 48, 52>>
\* "Network"
strNetwork ==
    <<78, 101, 116, 119, 111, 114, 107>>
\* "Failed to fetch"
strFailedToFetch ==
    <<70, 97, 105, 108, 101, 100, 32, 116, 111, 32, 102, 101, 116, 99, 104>>
\* "HTTP error"
strHTTPerror ==
    <<72, 84, 84, 80, 32, 101, 114, 114, 111, 114>>
\* "Sökningen misslyckades: "
SearchFailedPrefix ==
    <<83, 246, 107, 110, 105, 110, 103, 101, 110, 32, 109, 105, 115, 115,
      108, 121, 99, 107, 97, 100, 101, 115, 58, 32>>
\* variant: "Network response was not ok"
NetworkResponseMsg ==
    <<78, 101, 116, 119, 111, 114, 107, 32, 114, 101, 115, 112, 111, 110,
      115, 101, 32, 119, 97, 115, 32, 110, 111, 116, 32, 111, 107>>
\* "Ogiltig respons från servern"
InvalidResponseMsg ==
    <<79, 103, 105, 108, 116, 105, 103, 32, 114, 101, 115, 112, 111, 110,
      115, 32, 102, 114, 229, 110, 32, 115, 101, 114, 118, 101, 114, 110>>
\* "Kunde inte ansluta till servern. Kontrollera din internetanslutning
\*  och försök igen."
NetworkUnavailableMsg ==
    <<75, 117, 110, 100, 101, 32, 105, 110, 116, 101, 32, 97, 110, 115, 108,
      117, 116, 97, 32, 116, 105, 108, 108, 32, 115, 101, 114, 118, 101,
      114, 110, 46, 32, 75, 111, 110, 116, 114, 111, 108, 108, 101, 114, 97,
      32, 100, 105, 110, 32, 105, 110, 116, 101, 114, 110, 101, 116, 97,
      110, 115, 108, 117, 116, 110, 105, 110, 103, 32, 111, 99, 104, 32,
      102, 246, 114, 115, 246, 107, 32, 105, 103, 101, 110, 46>>
\* "Ett fel uppstod vid sökning. Försök igen om en stund."
FallbackMsg ==
    <<69, 116, 116, 32, 102, 101, 108, 32, 117, 112, 112, 115, 116, 111,
      100, 32, 118, 105, 100, 32, 115, 246, 107, 110, 105, 110, 103, 46, 32,
      70, 246, 114, 115, 246, 107, 32, 105, 103, 101, 110, 32, 111, 109, 32,
      101, 110, 32, 115, 116, 117, 110, 100, 46>>
\* "temp_"
strTemp ==
    <<116, 101, 109, 112, 95>>
\* "undefined"
strUndefined ==
    <<117, 110, 100, 101, 102, 105, 110, 101, 100>>

(***************************************************************************)
(* JavaScript primitives the source uses.                                  *)
(***************************************************************************)
\* the empty object
EmptyObj == [f \in {} |-> 0]

\* obj.f is neither undefined nor null
Has(obj, f) == f \in DOMAIN obj

\* obj.f is truthy, for a property that holds text
TruthyText(obj, f) == Has(obj, f) /\ obj[f] # <<>>

\* obj.f is truthy, for a property that holds a number
TruthyNum(obj, f) == Has(obj, f) /\ obj[f] # 0

\* obj.f || dflt, for text and for numbers
OrText(obj, f, dflt) == IF TruthyText(obj, f) THEN obj[f] ELSE dflt
OrNum(obj, f, dflt) == IF TruthyNum(obj, f) THEN obj[f] ELSE dflt

\* { f: obj.g } where an undefined value leaves the property absent
Copy(obj, g, f) == IF Has(obj, g) THEN [x \in {f} |-> obj[g]] ELSE EmptyObj

\* { f: obj.g || null } where null leaves the property absent
CopyTruthyText(obj, g, f) ==
    IF TruthyText(obj, g) THEN [x \in {f} |-> obj[g]] ELSE EmptyObj

\* String.prototype.includes
Includes(s, sub) ==
    \E i \in 0..(Len(s) - Len(sub)) :
        \A k \in 1..Len(sub) : s[i + k] = sub[k]

\* Math.pow(2, n) for n >= 0
RECURSIVE Pow2(_)
Pow2(n) == IF n = 0 THEN 1 ELSE 2 * Pow2(n - 1)

\* the decimal text of a non-negative integer (template literal, String(n))
RECURSIVE Digits(_)
Digits(n) == IF n < 10 THEN <<48 + n>> ELSE Digits(n \div 10) \o <<48 + (n % 10)>>

\* split('').reduce((acc, char) => acc + char.charCodeAt(0), 0)
RECURSIVE SumCodes(_)
SumCodes(s) == IF s = <<>> THEN 0 ELSE Head(s) + SumCodes(Tail(s))

\* String.prototype.toLowerCase, on the letters A-Z
toLowerCase(s) == [i \in 1..Len(s) |-> IF s[i] \in 65..90 THEN s[i] + 32 ELSE s[i]]

(***************************************************************************)
(* Inputs: what the callers pass and what the collaborators answer.        *)
(***************************************************************************)
\* "ab", "ba", "c", "x", "u": product names, a brand, an image URL
txtAb == <<97, 98>>
txtBa == <<98, 97>>
txtC == <<99>>
txtX == <<120>>
txtU == <<117>>
\* "a", "b": canonical identifiers (catalog id, barcode)
idA == <<97>>
idB == <<98>>
\* "frukost", "Lunch": meal types
txtFrukost == <<102, 114, 117, 107, 111, 115, 116>>
txtLunch == <<76, 117, 110, 99, 104>>

\* raw product objects of the search endpoint: two with the same off_id
\* and different fields, one with an empty off_id and a barcode, one with
\* no identifier at all
rawA1 ==
    [off_id |-> idA, name |-> txtAb, brand |-> txtX, calories |-> 52,
     protein |-> 1, image_url |-> txtU]
rawA2 == [off_id |-> idA, name |-> txtBa, calories |-> 0, sugar |-> 3]
rawB == [off_id |-> <<>>, barcode |-> idB, name |-> txtC, fat |-> 2, carbs |-> 4]
rawNoId == [name |-> txtAb, calories |-> 89]

RawProducts == {rawA1, rawA2, rawB, rawNoId}

\* raw results without off_id and barcode: "ba" with an empty brand, "c" of
\* brand "x", and one without a name
rawBaNoId == [name |-> txtBa, brand |-> <<>>]
rawBranded == [name |-> txtC, brand |-> txtX]
rawNameless == [brand |-> txtX]
UnkeyedProducts == {rawNoId, rawBaNoId, rawBranded, rawNameless}

RECURSIVE SeqsUpTo(_, _)
SeqsUpTo(S, n) ==
    IF n = 0 THEN {<<>>}
    ELSE LET shorter == SeqsUpTo(S, n - 1)
         IN  shorter \cup {Append(s, x) : s \in shorter, x \in S}

\* "timeout", "Network request failed", "HTTP error 500", "HTTP error 404",
\* "no route 404", "store error": messages of errors of the collaborators
msgTimeout ==
    <<116, 105, 109, 101, 111, 117, 116>>
msgNetwork ==
    <<78, 101, 116, 119, 111, 114, 107, 32, 114, 101, 113, 117, 101, 115,
      116, 32, 102, 97, 105, 108, 101, 100>>
msgHTTP500 ==
    <<72, 84, 84, 80, 32, 101, 114, 114, 111, 114, 32, 53, 48, 48>>
msgHTTP404 ==
    <<72, 84, 84, 80, 32, 101, 114, 114, 111, 114, 32, 52, 48, 52>>
msgNoRoute404 ==
    <<110, 111, 32, 114, 111, 117, 116, 101, 32, 52, 48, 52>>
msgStore ==
    <<115, 116, 111, 114, 101, 32, 101, 114, 114, 111, 114>>

ErrorMessages ==
    {msgTimeout, msgNetwork, strFailedToFetch, msgHTTP500, msgHTTP404,
     msgNoRoute404}

ArrayResponse(a) == [data |-> [isArray |-> TRUE, items |-> a]]
ErrorResponse(s, m) == [error |-> [status |-> s, message |-> m]]

\* what supabase.functions.invoke('food-search') resolves to: { data, error }
\* with an error carrying status and message, or data that is an array,
\* absent, or a value that is no array
Responses ==
    {ErrorResponse(s, m) : s \in {404, 500}, m \in ErrorMessages}
    \cup {ArrayResponse(a) : a \in SeqsUpTo(RawProducts, MaxLen)}
    \cup {EmptyObj, [data |-> [isArray |-> FALSE]]}

\* the answers drawn on when calls run concurrently: every array of two
\* products with canonical identifiers, and a not-found error
ConcResponses ==
    {ErrorResponse(404, msgTimeout)}
    \cup {ArrayResponse(a) : a \in SeqsUpTo({rawA1, rawB}, MaxConcLen)}

\* the answers drawn on when retrying calls run concurrently: a network
\* error, another error, a not-found error and two arrays whose products
\* share one identifier
RetryResponses ==
    {ErrorResponse(500, msgHTTP500), ErrorResponse(500, msgTimeout),
     ErrorResponse(404, msgTimeout),
     ArrayResponse(<<rawA1>>), ArrayResponse(<<rawA2>>)}

\* the answers whose every identifier is synthesized
UnkeyedResponses ==
    {ArrayResponse(a) : a \in SeqsUpTo(UnkeyedProducts, MaxConcLen)}

\* how a call to the store ends: a result without error, a result with
\* error, or a rejected promise
StoreOutcomes == {"ok", "error", "throw"}

\* Math.random() * 200 lies in [0, 200): its least and greatest whole values
jitterRange == 200
Jitters == {0, jitterRange - 1}
ConcJitters == {0}

\* FoodProduct arguments of addFoodToMeal: one without and one with off_id
MealProducts ==
    { [name |-> txtAb, brand |-> <<>>, calories |-> 89, protein |-> 0,
       fat |-> 0, carbs |-> 0, image_url |-> <<>>],
      [name |-> txtAb, brand |-> txtX, calories |-> 52, protein |-> 1,
       fat |-> 0, carbs |-> 0, image_url |-> txtU, off_id |-> idA] }

\* quantityGrams and mealType arguments (an absent mealType is the default)
Quantities == {0, 50}
MealTypes == {EmptyObj, [mealType |-> txtLunch]}
ConcQuantities == {50}
ConcMealTypes == {EmptyObj}

\* tasks that call searchProductsByName and addFoodToMeal
Callers == {"s1", "s2"}
\* the task that makes the calls when calls do not overlap
SeqCallers == {"s1"}

(***************************************************************************)
(* State.                                                                  *)
(***************************************************************************)
VARIABLES
    pc,           \* per caller: where its call stands
    attempt,      \* per caller: the loop variable of the retry loop
    invocations,  \* per caller: endpoint invocations of the call so far
    waits,        \* per caller: the waitTime of each delay() of the call
    resp,         \* per caller: the last { data, error } the call received
    idx,          \* per caller: position of the loop in cacheSearchResults
    storeLog,     \* per caller: store failures and rejections of the call
    meal,         \* per caller: the locals of its addFoodToMeal call
    result,       \* per caller: how the call ended
    logCall,      \* per caller: the locals of its createMeal call
    cache,        \* the rows of table livsmedelskache, a bag
    matlogg,      \* the rows of table daglig_matlogg, a set
    now           \* Date.now()

vars ==
    <<pc, attempt, invocations, waits, resp, idx, storeLog, meal, result,
      logCall, cache, matlogg, now>>

NoResp == [none |-> TRUE]
NoMeal == [none |-> TRUE]
NoResult == [kind |-> "none"]
NoLogCall == [none |-> TRUE]

Init ==
    /\ pc = [p \in Callers |-> "idle"]
    /\ attempt = [p \in Callers |-> 0]
    /\ invocations = [p \in Callers |-> 0]
    /\ waits = [p \in Callers |-> <<>>]
    /\ resp = [p \in Callers |-> NoResp]
    /\ idx = [p \in Callers |-> 0]
    /\ storeLog = [p \in Callers |-> {}]
    /\ meal = [p \in Callers |-> NoMeal]
    /\ result = [p \in Callers |-> NoResult]
    /\ logCall = [p \in Callers |-> NoLogCall]
    /\ cache = EmptyBag
    /\ matlogg = {}
    /\ now = 0

(***************************************************************************)
(* The livsmedelskache store: a table keyed by off_id.                     *)
(***************************************************************************)
\* how many rows have off_id = key
RECURSIVE SumCopies(_, _)
SumCopies(rows, S) ==
    IF S = {} THEN 0
    ELSE LET r == CHOOSE x \in S : TRUE
         IN  CopiesIn(r, rows) + SumCopies(rows, S \ {r})

RowsWithKey(rows, key) ==
    SumCopies(rows, {r \in BagToSet(rows) : r.off_id = key})

\* insert: the uniqueness constraint on off_id rejects a second row
StoreRejects(rows, row) == RowsWithKey(rows, row.off_id) > 0
StoreInsert(rows, row) ==
    IF StoreRejects(rows, row) THEN rows ELSE rows (+) SetToBag({row})

\* select('off_id').eq('off_id', key).maybeSingle(): data is the row when
\* exactly one row matches, and null otherwise
MaybeSingle(rows, key) == RowsWithKey(rows, key) = 1

(***************************************************************************)
(* generateTempId and the normalisation of searchProductsByName.           *)
(***************************************************************************)
\* `${name}${brand || ''}${Date.now()}`, summed, behind "temp_"; obj is the
\* object whose name and brand are passed, t is Date.now()
generateTempId(obj, t) ==
    LET name == IF Has(obj, "name") THEN obj.name ELSE strUndefined
        combinedString == name \o OrText(obj, "brand", <<>>) \o Digits(t)
    IN  strTemp \o Digits(SumCodes(combinedString))

\* variant: the barcode is not consulted
resolveOffIdNoBarcode(item, t) ==
    IF TruthyText(item, "off_id") THEN item.off_id
    ELSE generateTempId(item, t)

\* item.off_id || item.barcode || generateTempId(item.name, item.brand)
resolveOffId(item, t) ==
    IF TruthyText(item, "off_id") THEN item.off_id
    ELSE IF TruthyText(item, "barcode") THEN item.barcode
    ELSE generateTempId(item, t)

\* the object literal of data.map
normalizeItem(item, t) ==
    [brand |-> OrText(item, "brand", <<>>),
     calories |-> OrNum(item, "calories", 0),
     protein |-> OrNum(item, "protein", 0),
     fat |-> OrNum(item, "fat", 0),
     carbs |-> OrNum(item, "carbs", 0),
     image_url |-> OrText(item, "image_url", <<>>),
     off_id |-> resolveOffId(item, t)]
    @@ Copy(item, "name", "name") @@ Copy(item, "sugar", "sugar")

\* variant: results without off_id and barcode are left out
mapDropsUnkeyed(items, t) ==
    LET keyed == SelectSeq(items, LAMBDA it :
                     TruthyText(it, "off_id") \/ TruthyText(it, "barcode"))
    IN  [i \in 1..Len(keyed) |-> normalizeItem(keyed[i], t)]

\* data.map(item => ({...}))
mapResults(items, t) == [i \in 1..Len(items) |-> normalizeItem(items[i], t)]

(***************************************************************************)
(* cacheSearchResults.                                                     *)
(***************************************************************************)
\* if (!product.off_id && !product.barcode) continue
skipsProduct(product) ==
    ~TruthyText(product, "off_id") /\ ~TruthyText(product, "barcode")

\* const off_id = product.off_id || product.barcode
cacheKey(product) ==
    IF TruthyText(product, "off_id") THEN product.off_id ELSE product.barcode

\* the object passed to insert
cacheRow(product, off_id) ==
    [off_id |-> off_id,
     energi_kcal_100g |-> OrNum(product, "calories", 0),
     protein_100g |-> OrNum(product, "protein", 0),
     kolhydrater_100g |-> OrNum(product, "carbs", 0),
     fett_100g |-> OrNum(product, "fat", 0)]
    @@ Copy(product, "name", "produktnamn")
    @@ CopyTruthyText(product, "brand", "varumarke")
    @@ CopyTruthyText(product, "image_url", "bild_url")

\* variant: the loop does not advance past the product it has handled
nextProductStuck(products, i) ==
    IF i > 1 THEN i - 1
    ELSE IF products # <<>> /\ ~skipsProduct(products[1]) THEN 1
    ELSE Len(products) + 1

\* the first product from position i on that the loop does not skip
\* (Len + 1 when the loop is over)
RECURSIVE nextProduct(_, _)
nextProduct(products, i) ==
    IF i > Len(products) THEN i
    ELSE IF skipsProduct(products[i]) THEN nextProduct(products, i + 1)
    ELSE i

\* if (existingProduct) continue: outcome is how the select ended
\* variant: the existence check never finds a row
lookupAlwaysMisses(rows, off_id, outcome) == FALSE

existingProduct(rows, off_id, outcome) ==
    outcome = "ok" /\ MaybeSingle(rows, off_id)

\* variant: upsert in place of insert
cacheUpsert(rows, row) ==
    LET others == {r \in BagToSet(rows) : r.off_id # row.off_id}
    IN  [r \in others |-> rows[r]] (+) SetToBag({row})

\* supabase.from('livsmedelskache').insert({...}) reaching the store
cacheInsert(rows, row) == StoreInsert(rows, row)

\* variant: the error of a refused insert is thrown
insertErrorThrows(outcome, rejected) == outcome = "throw" \/ rejected

\* the awaited store call leaves the try block only when its promise
\* rejects; the error of a result is never read
storeCallThrows(outcome, rejected) == outcome = "throw"


(***************************************************************************)
(* searchProductsByName.                                                   *)
(***************************************************************************)
\* variant: one attempt more
fourRetries == 3 + 1

maxRetries == 3
baseDelay == 1000

\* variant: the status is never taken for not-found
neverNotFound(error) == FALSE

\* if (error.status === 404) return []
isNotFound(error) == error.status = 404

\* variant: the last attempt is taken to be one later
lastAttemptIsFourth(a) == a = maxRetries + 1

\* if (attempt === maxRetries)
isLastAttempt(a) == a = maxRetries

\* err.message && err.message.includes('404')
messageHas404(message) == message # <<>> /\ Includes(message, str404)

\* variant: 'HTTP error' is not taken for a network error
networkWithoutHTTP(message) ==
    /\ message # <<>>
    /\ \/ Includes(message, strNetwork)
       \/ Includes(message, strFailedToFetch)

\* err.message && (err.message.includes('Network') ||
\* err.message.includes('Failed to fetch') || err.message.includes('HTTP error'))
isNetworkError(message) ==
    /\ message # <<>>
    /\ \/ Includes(message, strNetwork)
       \/ Includes(message, strFailedToFetch)
       \/ Includes(message, strHTTPerror)

\* variant: the exponent is attempt, not attempt - 1
doubledWaitTime(a, jitter) == baseDelay * Pow2(a) + jitter

\* baseDelay * Math.pow(2, attempt - 1) + jitter
waitTime(a, jitter) == baseDelay * Pow2(a - 1) + jitter

\* return value
Returns(p, value) ==
    /\ pc' = [pc EXCEPT ![p] = "returned"]
    /\ result' = [result EXCEPT ![p] = [kind |-> "returned", value |-> value]]

\* an Error with this message leaves the function
Raises(p, message) ==
    /\ pc' = [pc EXCEPT ![p] = "raised"]
    /\ result' = [result EXCEPT ![p] = [kind |-> "raised", message |-> message]]

\* the catch block of the retry loop, entered with err.message = message;
\* J is the set the jitter is drawn from
catchBlock(p, message, J) ==
    IF isLastAttempt(attempt[p])
    THEN /\ IF messageHas404(message) THEN Returns(p, <<>>)
            ELSE IF isNetworkError(message) THEN Raises(p, NetworkUnavailableMsg)
            ELSE Raises(p, IF message # <<>> THEN message ELSE FallbackMsg)
         /\ UNCHANGED waits
    ELSE /\ \E jitter \in J :
              waits' = [waits EXCEPT ![p] = Append(@, waitTime(attempt[p], jitter))]
         /\ pc' = [pc EXCEPT ![p] = "delay"]
         /\ UNCHANGED result

\* variant: after a failure of the cache nothing is returned
cacheCatchEmpty(p) ==
    /\ Returns(p, <<>>)
    /\ UNCHANGED waits

\* variant: the catch block of cacheSearchResults rethrows
cachingRethrows(p) == catchBlock(p, msgStore, Jitters)

\* catch (error) { console.error(...) } of cacheSearchResults, after which
\* searchProductsByName returns data.map(...)
cacheCatch(p) ==
    /\ Returns(p, mapResults(resp[p].data.items, now))
    /\ UNCHANGED waits

\* variant: the return after the loop is missing, so that the retry loop
\* goes on to its next iteration
cacheLoopFallsThrough(p, products, i) ==
    LET j == nextProduct(products, i)
    IN  IF j <= Len(products)
        THEN /\ pc' = [pc EXCEPT ![p] = "lookup"]
             /\ idx' = [idx EXCEPT ![p] = j]
             /\ UNCHANGED result
        ELSE /\ pc' = [pc EXCEPT ![p] = "delay"]
             /\ idx' = [idx EXCEPT ![p] = 0]
             /\ UNCHANGED result

\* variant: cacheSearchResults is not awaited
cacheLoopDetached(p, products, i) ==
    /\ Returns(p, mapResults(products, now))
    /\ idx' = [idx EXCEPT ![p] = 0]

\* the loop of cacheSearchResults from position i on, up to its next
\* await; when the loop is over searchProductsByName returns data.map(...)
cacheLoop(p, products, i) ==
    LET j == nextProduct(products, i)
    IN  IF j <= Len(products)
        THEN /\ pc' = [pc EXCEPT ![p] = "lookup"]
             /\ idx' = [idx EXCEPT ![p] = j]
             /\ UNCHANGED result
        ELSE /\ Returns(p, mapResults(products, now))
             /\ idx' = [idx EXCEPT ![p] = 0]

\* a caller calls searchProductsByName: the first supabase.functions.invoke
Start(p) ==
    /\ pc[p] \in {"idle", "returned", "raised"}
    /\ pc' = [pc EXCEPT ![p] = "invoke"]
    /\ attempt' = [attempt EXCEPT ![p] = 1]
    /\ invocations' = [invocations EXCEPT ![p] = 1]
    /\ waits' = [waits EXCEPT ![p] = <<>>]
    /\ resp' = [resp EXCEPT ![p] = NoResp]
    /\ idx' = [idx EXCEPT ![p] = 0]
    /\ storeLog' = [storeLog EXCEPT ![p] = {}]
    /\ meal' = [meal EXCEPT ![p] = NoMeal]
    /\ result' = [result EXCEPT ![p] = NoResult]
    /\ logCall' = [logCall EXCEPT ![p] = NoLogCall]
    /\ UNCHANGED <<cache, matlogg, now>>

\* supabase.functions.invoke resolves with a response r of R
InvokeReturns(p, R, J) ==
    /\ pc[p] = "invoke"
    /\ \E r \in R :
        /\ resp' = [resp EXCEPT ![p] = r]
        /\ IF Has(r, "error")
           THEN IF isNotFound(r.error)
                THEN Returns(p, <<>>) /\ UNCHANGED <<waits, idx>>
                ELSE /\ catchBlock(p, SearchFailedPrefix \o r.error.message, J)
                     /\ UNCHANGED idx
           ELSE IF ~Has(r, "data") \/ ~r.data.isArray
                THEN catchBlock(p, InvalidResponseMsg, J) /\ UNCHANGED idx
                ELSE cacheLoop(p, r.data.items, 1) /\ UNCHANGED waits
    /\ UNCHANGED <<attempt, invocations, storeLog, meal, cache, now>>
    /\ UNCHANGED <<logCall, matlogg>>

\* delay(waitTime) resolves: attempt++, and the loop condition
DelayElapses(p) ==
    /\ pc[p] = "delay"
    /\ attempt' = [attempt EXCEPT ![p] = @ + 1]
    /\ IF attempt'[p] <= maxRetries
       THEN /\ pc' = [pc EXCEPT ![p] = "invoke"]
            /\ invocations' = [invocations EXCEPT ![p] = @ + 1]
            /\ resp' = [resp EXCEPT ![p] = NoResp]
            /\ UNCHANGED result
       ELSE /\ Returns(p, <<>>)
            /\ UNCHANGED <<invocations, resp>>
    /\ UNCHANGED <<waits, idx, storeLog, meal, cache, now>>
    /\ UNCHANGED <<logCall, matlogg>>

\* the select of cacheSearchResults ends
LookupReturns(p) ==
    /\ pc[p] = "lookup"
    /\ \E outcome \in StoreOutcomes :
        LET product == resp[p].data.items[idx[p]]
        IN  /\ storeLog' = [storeLog EXCEPT ![p] =
                   @ \cup (IF outcome = "ok" THEN {} ELSE {"lookup_" \o outcome})]
            /\ IF storeCallThrows(outcome, FALSE)
               THEN cacheCatch(p) /\ idx' = [idx EXCEPT ![p] = 0]
               ELSE /\ UNCHANGED waits
                    /\ IF existingProduct(cache, cacheKey(product), outcome)
                       THEN cacheLoop(p, resp[p].data.items, idx[p] + 1)
                       ELSE /\ pc' = [pc EXCEPT ![p] = "insert"]
                            /\ UNCHANGED <<idx, result>>
    /\ UNCHANGED <<attempt, invocations, resp, meal, cache, now>>
    /\ UNCHANGED <<logCall, matlogg>>

\* the insert of cacheSearchResults ends
InsertReturns(p) ==
    /\ pc[p] = "insert"
    /\ \E outcome \in StoreOutcomes :
        LET product == resp[p].data.items[idx[p]]
            row == cacheRow(product, cacheKey(product))
            rejected == outcome = "ok" /\ StoreRejects(cache, row)
        IN  /\ cache' = IF outcome = "ok" THEN cacheInsert(cache, row) ELSE cache
            /\ storeLog' = [storeLog EXCEPT ![p] = @ \cup
                   (IF rejected THEN {"duplicate"}
                    ELSE IF outcome = "ok" THEN {} ELSE {"insert_" \o outcome})]
            /\ IF storeCallThrows(outcome, rejected)
               THEN cacheCatch(p) /\ idx' = [idx EXCEPT ![p] = 0]
               ELSE cacheLoop(p, resp[p].data.items, idx[p] + 1) /\ UNCHANGED waits
    /\ UNCHANGED <<attempt, invocations, resp, meal, now>>
    /\ UNCHANGED <<logCall, matlogg>>

(***************************************************************************)
(* addFoodToMeal.                                                          *)
(***************************************************************************)
defaultQuantity == 100
\* "L1": the logId argument
idLog == <<76, 49>>

\* the object inserted into maltidsinlagg
mealRow(m) ==
    [daglig_logg_id |-> idLog,
     maltidstyp |-> toLowerCase(m.mealType),
     off_id |-> m.off_id,
     custom_namn |-> m.product.name,
     antal_gram |-> m.quantity]

\* a caller calls addFoodToMeal, up to its first await
StartMeal(p, Q, T) ==
    /\ pc[p] \in {"idle", "returned", "raised"}
    /\ \E product \in MealProducts, quantityGrams \in Q, mt \in T :
        LET quantity == IF quantityGrams > 0 THEN quantityGrams ELSE defaultQuantity
            mealType == IF Has(mt, "mealType") THEN mt.mealType ELSE txtFrukost
            synthesize == ~TruthyText(product, "off_id")
            off_id == IF synthesize THEN generateTempId(product, now)
                      ELSE product.off_id
        IN  /\ meal' = [meal EXCEPT ![p] =
                   [product |-> product, off_id |-> off_id,
                    quantity |-> quantity, mealType |-> mealType]]
            /\ pc' = [pc EXCEPT ![p] =
                   IF synthesize THEN "mealCache" ELSE "mealInsert"]
    /\ attempt' = [attempt EXCEPT ![p] = 0]
    /\ invocations' = [invocations EXCEPT ![p] = 0]
    /\ waits' = [waits EXCEPT ![p] = <<>>]
    /\ resp' = [resp EXCEPT ![p] = NoResp]
    /\ idx' = [idx EXCEPT ![p] = 0]
    /\ storeLog' = [storeLog EXCEPT ![p] = {}]
    /\ result' = [result EXCEPT ![p] = NoResult]
    /\ logCall' = [logCall EXCEPT ![p] = NoLogCall]
    /\ UNCHANGED <<cache, matlogg, now>>

\* the insert into livsmedelskache ends; on a rejected promise the catch
\* block rethrows
MealCacheReturns(p) ==
    /\ pc[p] = "mealCache"
    /\ \E outcome \in StoreOutcomes :
        LET row == cacheRow(meal[p].product, meal[p].off_id)
            rejected == outcome = "ok" /\ StoreRejects(cache, row)
        IN  /\ cache' = IF outcome = "ok" THEN cacheInsert(cache, row) ELSE cache
            /\ storeLog' = [storeLog EXCEPT ![p] = @ \cup
                   (IF rejected THEN {"duplicate"}
                    ELSE IF outcome = "ok" THEN {} ELSE {"insert_" \o outcome})]
            /\ IF storeCallThrows(outcome, rejected)
               THEN Raises(p, msgStore)
               ELSE /\ pc' = [pc EXCEPT ![p] = "mealInsert"]
                    /\ UNCHANGED result
    /\ UNCHANGED <<attempt, invocations, waits, resp, idx, meal, now>>
    /\ UNCHANGED <<logCall, matlogg>>

\* the insert into maltidsinlagg ends: if (error) throw error
MealInsertReturns(p) ==
    /\ pc[p] = "mealInsert"
    /\ \E outcome \in StoreOutcomes :
        IF outcome = "ok"
        THEN /\ pc' = [pc EXCEPT ![p] = "returned"]
             /\ result' = [result EXCEPT ![p] =
                    [kind |-> "added", row |-> mealRow(meal[p])]]
        ELSE Raises(p, msgStore)
    /\ UNCHANGED <<attempt, invocations, waits, resp, idx, storeLog, meal, cache, now>>
    /\ UNCHANGED <<logCall, matlogg>>

(***************************************************************************)
(* createMeal.                                                             *)
(***************************************************************************)
\* "User not authenticated"
NotAuthenticatedMsg ==
    <<85, 115, 101, 114, 32, 110, 111, 116, 32, 97, 117, 116, 104, 101, 110,
      116, 105, 99, 97, 116, 101, 100>>

\* "1970-01-": the year and the month of the dates of the first days
str197001 == <<49, 57, 55, 48, 45, 48, 49, 45>>
msPerDay == 86400000

\* toISOString().split('T')[0] of the Date of ms milliseconds, for a Date of
\* January 1970
isoDate(ms) ==
    LET day == (ms \div msPerDay) + 1
    IN  str197001 \o (IF day < 10 THEN <<48>> ELSE <<>>) \o Digits(day)

\* the date argument: absent, or a Date given by its milliseconds
MealDates ==
    {EmptyObj, [date |-> 0], [date |-> msPerDay - 1], [date |-> msPerDay]}

\* the user of supabase.auth.getUser(): null, or the user "u1"
userU1 == <<117, 49>>
AuthUsers == {EmptyObj, [id |-> userU1]}

\* .eq('user_id', user.id).eq('loggdatum', logDate)
logRows(rows, user_id, logDate) ==
    {r \in rows : r.user_id = user_id /\ r.loggdatum = logDate}

\* the row that insert(...).select().single() gives back; the store
\* numbers the ids
newLogRow(rows, user_id, logDate) ==
    [id |-> Cardinality(rows) + 1, user_id |-> user_id, loggdatum |-> logDate]

\* return { id: logId }
ReturnsId(p, logId) ==
    /\ pc' = [pc EXCEPT ![p] = "returned"]
    /\ result' = [result EXCEPT ![p] = [kind |-> "created", id |-> logId]]

\* a caller calls createMeal, up to supabase.auth.getUser()
StartCreate(p) ==
    /\ pc[p] \in {"idle", "returned", "raised"}
    /\ \E d \in MealDates : logCall' = [logCall EXCEPT ![p] = [arg |-> d]]
    /\ pc' = [pc EXCEPT ![p] = "getUser"]
    /\ attempt' = [attempt EXCEPT ![p] = 0]
    /\ invocations' = [invocations EXCEPT ![p] = 0]
    /\ waits' = [waits EXCEPT ![p] = <<>>]
    /\ resp' = [resp EXCEPT ![p] = NoResp]
    /\ idx' = [idx EXCEPT ![p] = 0]
    /\ storeLog' = [storeLog EXCEPT ![p] = {}]
    /\ meal' = [meal EXCEPT ![p] = NoMeal]
    /\ result' = [result EXCEPT ![p] = NoResult]
    /\ UNCHANGED <<cache, matlogg, now>>

\* getUser ends: if (!user) throw; logDate is computed
GetUserReturns(p) ==
    /\ pc[p] = "getUser"
    /\ \E user \in AuthUsers :
        IF user = EmptyObj
        THEN Raises(p, NotAuthenticatedMsg) /\ UNCHANGED logCall
        ELSE LET date == logCall[p].arg
                 logDate == IF Has(date, "date") THEN isoDate(date.date)
                            ELSE isoDate(now)
             IN  /\ logCall' = [logCall EXCEPT ![p] =
                        [arg |-> date, user_id |-> user.id, logDate |-> logDate]]
                 /\ pc' = [pc EXCEPT ![p] = "selectLog"]
                 /\ UNCHANGED result
    /\ UNCHANGED <<attempt, invocations, waits, resp, idx, storeLog, meal,
                   cache, matlogg, now>>

\* the select of daglig_matlogg ends: if (logError) throw logError;
\* existingLog is a row that matches, when there is one
SelectLogReturns(p) ==
    /\ pc[p] = "selectLog"
    /\ \E outcome \in StoreOutcomes :
        LET found == logRows(matlogg, logCall[p].user_id, logCall[p].logDate)
        IN  IF outcome # "ok" THEN Raises(p, msgStore)
            ELSE IF found # {}
            THEN \E existingLog \in found : ReturnsId(p, existingLog.id)
            ELSE pc' = [pc EXCEPT ![p] = "insertLog"] /\ UNCHANGED result
    /\ UNCHANGED <<attempt, invocations, waits, resp, idx, storeLog, meal,
                   logCall, cache, matlogg, now>>

\* the insert into daglig_matlogg ends: if (createLogError) throw
InsertLogReturns(p) ==
    /\ pc[p] = "insertLog"
    /\ \E outcome \in StoreOutcomes :
        LET newLog == newLogRow(matlogg, logCall[p].user_id, logCall[p].logDate)
        IN  IF outcome = "ok"
            THEN /\ matlogg' = matlogg \cup {newLog}
                 /\ ReturnsId(p, newLog.id)
            ELSE /\ Raises(p, msgStore)
                 /\ UNCHANGED matlogg
    /\ UNCHANGED <<attempt, invocations, waits, resp, idx, storeLog, meal,
                   logCall, cache, now>>

\* time passes
Tick ==
    /\ now < MaxNow
    /\ now' = now + 1
    /\ UNCHANGED <<pc, attempt, invocations, waits, resp, idx, storeLog, meal,
                   result, logCall, cache, matlogg>>

(***************************************************************************)
(* Specifications.                                                         *)
(***************************************************************************)
\* calls that do not overlap: one task makes one call after the other, and
\* the collaborators answer with every response and every store outcome
Next ==
    \/ \E p \in SeqCallers :
        \/ Start(p)
        \/ InvokeReturns(p, Responses, Jitters)
        \/ DelayElapses(p)
        \/ LookupReturns(p)
        \/ InsertReturns(p)
        \/ StartMeal(p, Quantities, MealTypes)
        \/ MealCacheReturns(p)
        \/ MealInsertReturns(p)
    \/ Tick

Spec == Init /\ [][Next]_vars

\* calls in flight together, under every interleaving of their awaits
NextConc ==
    \/ \E p \in Callers :
        \/ Start(p)
        \/ InvokeReturns(p, ConcResponses, ConcJitters)
        \/ LookupReturns(p)
        \/ InsertReturns(p)
        \/ StartMeal(p, ConcQuantities, ConcMealTypes)
        \/ MealCacheReturns(p)
        \/ MealInsertReturns(p)

SpecConc == Init /\ [][NextConc]_vars

\* searches in flight together that retry
NextRetry ==
    \E p \in Callers :
        \/ Start(p)
        \/ InvokeReturns(p, RetryResponses, ConcJitters)
        \/ DelayElapses(p)
        \/ LookupReturns(p)
        \/ InsertReturns(p)

SpecRetry == Init /\ [][NextRetry]_vars

\* searches whose identifiers are synthesized, at any reading of the clock
InitUnkeyed ==
    /\ pc = [p \in Callers |-> "idle"]
    /\ attempt = [p \in Callers |-> 0]
    /\ invocations = [p \in Callers |-> 0]
    /\ waits = [p \in Callers |-> <<>>]
    /\ resp = [p \in Callers |-> NoResp]
    /\ idx = [p \in Callers |-> 0]
    /\ storeLog = [p \in Callers |-> {}]
    /\ meal = [p \in Callers |-> NoMeal]
    /\ result = [p \in Callers |-> NoResult]
    /\ logCall = [p \in Callers |-> NoLogCall]
    /\ cache = EmptyBag
    /\ matlogg = {}
    /\ now \in 0..MaxNow

NextUnkeyed ==
    \E p \in Callers :
        \/ Start(p)
        \/ InvokeReturns(p, UnkeyedResponses, ConcJitters)

SpecUnkeyed == InitUnkeyed /\ [][NextUnkeyed]_vars

\* createMeal calls in flight together
NextCreate ==
    \E p \in Callers :
        \/ StartCreate(p)
        \/ GetUserReturns(p)
        \/ SelectLogReturns(p)
        \/ InsertLogReturns(p)

SpecCreate == Init /\ [][NextCreate]_vars

(***************************************************************************)
(* Vocabulary of the properties.                                           *)
(***************************************************************************)
IsArrayResp(r) == Has(r, "data") /\ r.data.isArray
IsErrorResp(r) == Has(r, "error")
IsNotFoundResp(r) == IsErrorResp(r) /\ r.error.status = 404
\* an answer that makes the attempt fail: an error other than status 404,
\* or a payload that is no array
IsFailureResp(r) ==
    \/ IsErrorResp(r) /\ r.error.status # 404
    \/ r # NoResp /\ ~IsErrorResp(r) /\ ~IsArrayResp(r)

IsSearchCall(p) == pc[p] # "idle" /\ meal[p] = NoMeal /\ logCall[p] = NoLogCall
Ended(p) == pc[p] \in {"returned", "raised"}
ReturnedValue(p) == pc[p] = "returned" /\ result[p].kind = "returned"

FailureTags == {"lookup_error", "lookup_throw", "insert_error", "insert_throw"}

RECURSIVE SumSeq(_)
SumSeq(s) == IF s = <<>> THEN 0 ELSE Head(s) + SumSeq(Tail(s))

HasCanonicalId(item) == TruthyText(item, "off_id") \/ TruthyText(item, "barcode")
CanonicalId(item) == IF TruthyText(item, "off_id") THEN item.off_id ELSE item.barcode
CacheKeys == {r.off_id : r \in BagToSet(cache)}

\* C1: a call of searchProductsByName invokes the search endpoint at most
\* three times, whatever the endpoint answers.
C1_AtMostThreeInvocations ==
    \A p \in Callers : invocations[p] <= 3 /\ attempt[p] <= 3

C1_Witness ==
    \E p \in Callers : invocations[p] = 3 /\ pc[p] = "raised"

\* C2: when an attempt is answered with a status-404 error the call has
\* returned the empty sequence, with no wait and no invocation after that
\* answer.
C2_NotFoundReturnsEmpty ==
    \A p \in Callers :
        IsNotFoundResp(resp[p]) =>
            /\ ReturnedValue(p)
            /\ result[p].value = <<>>
            /\ invocations[p] = attempt[p]
            /\ Len(waits[p]) = attempt[p] - 1

C2_Witness ==
    \E p \in Callers :
        IsNotFoundResp(resp[p]) /\ attempt[p] = 2 /\ pc[p] = "returned"

\* C3: when the first attempt receives an array, the call makes no wait
\* and exactly one invocation, and it returns one record per raw result,
\* in the order of the array.
C3_FirstAttemptSuccess ==
    \A p \in Callers :
        (attempt[p] = 1 /\ IsArrayResp(resp[p])) =>
            /\ waits[p] = <<>>
            /\ invocations[p] = 1
            /\ pc[p] \in {"lookup", "insert", "returned"}
            /\ pc[p] = "returned" =>
                LET items == resp[p].data.items
                    value == result[p].value
                IN  /\ result[p].kind = "returned"
                    /\ Len(value) = Len(items)
                    /\ \A i \in 1..Len(items) :
                        /\ Has(value[i], "name") = Has(items[i], "name")
                        /\ Has(items[i], "name") => value[i].name = items[i].name
                        /\ HasCanonicalId(items[i]) =>
                               value[i].off_id = CanonicalId(items[i])

C3_Witness ==
    \E p \in Callers :
        /\ attempt[p] = 1
        /\ pc[p] = "returned"
        /\ IsArrayResp(resp[p])
        /\ resp[p].data.items = <<rawNoId, rawA1>>
        /\ Len(result[p].value) = 2

\* C4 as stated: a call returns a value only if its last answer was an
\* array or a status-404 error.
C4_ReturnsOnlyOnArrayOrNotFound ==
    \A p \in Callers :
        (IsSearchCall(p) /\ ReturnedValue(p)) =>
            IsArrayResp(resp[p]) \/ IsNotFoundResp(resp[p])

\* C4 amended: a call whose third attempt fails raises, unless the message
\* of that failure contains "404", and then it returns the empty sequence;
\* a call returns a value only on an array, on a status-404 error, or on
\* such a third failure.
C4_RaisesUnlessMessageHas404 ==
    \A p \in Callers :
        (IsSearchCall(p) /\ Ended(p)) =>
            LET r == resp[p]
                has404 == IsErrorResp(r) /\ Includes(r.error.message, str404)
            IN  /\ ReturnedValue(p) =>
                    \/ IsArrayResp(r)
                    \/ IsNotFoundResp(r)
                    \/ attempt[p] = 3 /\ IsFailureResp(r) /\ has404
                          /\ result[p].value = <<>>
                /\ (attempt[p] = 3 /\ IsFailureResp(r) /\ ~has404) =>
                       pc[p] = "raised"

C4_Witness ==
    \E p \in Callers :
        /\ IsSearchCall(p)
        /\ attempt[p] = 3
        /\ ReturnedValue(p)
        /\ resp[p] = ErrorResponse(500, msgHTTP404)

\* C5: a call that raises does so after its third attempt; it raises the
\* cannot-reach-server error exactly when the error of the third attempt
\* is network-class, and otherwise the search-failed error that carries the
\* message of that third error.
C5_RaisedErrorClass ==
    \A p \in Callers :
        (IsSearchCall(p) /\ pc[p] = "raised") =>
            LET r == resp[p]
                networkClass ==
                    /\ IsErrorResp(r)
                    /\ \/ Includes(r.error.message, strNetwork)
                       \/ Includes(r.error.message, strFailedToFetch)
                       \/ Includes(r.error.message, strHTTPerror)
            IN  /\ attempt[p] = 3
                /\ IsFailureResp(r)
                /\ result[p].kind = "raised"
                /\ networkClass <=> result[p].message = NetworkUnavailableMsg
                /\ ~networkClass =>
                       result[p].message =
                           IF IsErrorResp(r)
                           THEN SearchFailedPrefix \o r.error.message
                           ELSE InvalidResponseMsg

C5_Witness ==
    \E p \in Callers :
        /\ IsSearchCall(p)
        /\ pc[p] = "raised"
        /\ resp[p] = ErrorResponse(500, msgHTTP500)
        /\ result[p].message = NetworkUnavailableMsg

\* C6: the wait after attempt n is at least 1000 * 2^(n-1) ms and less
\* than 200 ms more; a call waits at most twice and less than 3400 ms in
\* all, and a call whose three attempts fail has waited exactly twice and
\* at least 3000 ms.
C6_BackoffBounds ==
    \A p \in Callers :
        /\ Len(waits[p]) <= 2
        /\ Len(waits[p]) = IF pc[p] = "delay" THEN attempt[p]
                           ELSE IF attempt[p] = 0 THEN 0 ELSE attempt[p] - 1
        /\ \A n \in 1..Len(waits[p]) :
            /\ waits[p][n] >= 1000 * Pow2(n - 1)
            /\ waits[p][n] < 1000 * Pow2(n - 1) + 200
        /\ SumSeq(waits[p]) < 3400
        /\ (Ended(p) /\ attempt[p] = 3 /\ IsFailureResp(resp[p])) =>
               Len(waits[p]) = 2 /\ SumSeq(waits[p]) >= 3000

C6_Witness ==
    \E p \in Callers :
        /\ pc[p] = "raised"
        /\ attempt[p] = 3
        /\ waits[p] = <<1199, 2000>>

C8_UniqueUnderRaces ==
    /\ \A key \in CacheKeys : RowsWithKey(cache, key) = 1
    /\ \A p \in Callers :
        (IsSearchCall(p) /\ "duplicate" \in storeLog[p]) =>
            /\ pc[p] \in {"lookup", "insert", "returned"}
            /\ IsArrayResp(resp[p])
            /\ pc[p] = "returned" =>
                /\ result[p].kind = "returned"
                /\ Len(result[p].value) = Len(resp[p].data.items)
                /\ storeLog[p] \cap FailureTags = {} =>
                    \A i \in 1..Len(resp[p].data.items) :
                        RowsWithKey(cache,
                            CanonicalId(resp[p].data.items[i])) = 1

C8_Witness ==
    \E p, q \in Callers :
        /\ p # q
        /\ IsSearchCall(p)
        /\ pc[p] = "returned"
        /\ storeLog[p] = {"duplicate"}
        /\ resp[p] = ArrayResponse(<<rawA1, rawB>>)
        /\ pc[q] \in {"lookup", "insert"}

\* C9: a row of the cache is never changed and never removed; the rows
\* only grow.
C9_RowsNeverChange ==
    [][\A r \in BagToSet(cache) : CopiesIn(r, cache') >= CopiesIn(r, cache)]_vars

C9_Witness ==
    \E p \in Callers :
        /\ IsSearchCall(p)
        /\ ReturnedValue(p)
        /\ resp[p] = ArrayResponse(<<rawA2>>)
        /\ storeLog[p] = {}
        /\ CopiesIn(cacheRow(rawA1, idA), cache) = 1

\* C10: a call that received an array and had a store operation fail still
\* returns one record for every raw result, raises nothing and invokes the
\* endpoint no further.
C10_CacheFailureContained ==
    \A p \in Callers :
        (IsSearchCall(p) /\ storeLog[p] \cap FailureTags # {}) =>
            /\ IsArrayResp(resp[p])
            /\ invocations[p] = attempt[p]
            /\ pc[p] \in {"lookup", "insert", "returned"}
            /\ pc[p] = "returned" =>
                LET items == resp[p].data.items
                    value == result[p].value
                IN  /\ result[p].kind = "returned"
                    /\ Len(value) = Len(items)
                    /\ \A i \in 1..Len(items) :
                        /\ Has(items[i], "name") => value[i].name = items[i].name
                        /\ HasCanonicalId(items[i]) =>
                               value[i].off_id = CanonicalId(items[i])

C10_Witness ==
    \E p \in Callers :
        /\ IsSearchCall(p)
        /\ pc[p] = "returned"
        /\ "lookup_throw" \in storeLog[p]
        /\ Len(waits[p]) = 1
        /\ Len(result[p].value) = 2

HasTempPrefix(id) == Len(id) > Len(strTemp) /\ SubSeq(id, 1, Len(strTemp)) = strTemp

\* C11 as stated: for a raw result with neither off_id nor barcode, a call
\* that returns gives a record with a synthesized off_id (and brand "" when
\* the result has no brand), and, when no store operation failed, the cache
\* holds one row keyed by that synthesized identifier.
C11_UnkeyedResultIsCached ==
    \A p \in Callers :
        (IsSearchCall(p) /\ ReturnedValue(p) /\ IsArrayResp(resp[p])) =>
            \A i \in 1..Len(resp[p].data.items) :
                ~HasCanonicalId(resp[p].data.items[i]) =>
                    /\ HasTempPrefix(result[p].value[i].off_id)
                    /\ ~Has(resp[p].data.items[i], "brand") =>
                           result[p].value[i].brand = <<>>
                    /\ storeLog[p] \cap FailureTags = {} =>
                           RowsWithKey(cache, result[p].value[i].off_id) = 1

\* C12: every record a call returns has a non-empty off_id: the off_id of
\* the raw result when it has one, else its barcode when it has one, else
\* an identifier that starts with "temp_"; and for a canonical identifier
\* the row the call caches is keyed by the identifier it returns.
C12_ResolvedIdentifier ==
    \A p \in Callers :
        (IsSearchCall(p) /\ ReturnedValue(p) /\ IsArrayResp(resp[p])) =>
            \A i \in 1..Len(resp[p].data.items) :
                LET item == resp[p].data.items[i]
                    id == result[p].value[i].off_id
                IN  /\ id # <<>>
                    /\ TruthyText(item, "off_id") => id = item.off_id
                    /\ (~TruthyText(item, "off_id") /\ TruthyText(item, "barcode")) =>
                           id = item.barcode
                    /\ (~TruthyText(item, "off_id") /\ ~TruthyText(item, "barcode")) =>
                           HasTempPrefix(id)
                    /\ (HasCanonicalId(item) /\ storeLog[p] \cap FailureTags = {}) =>
                           RowsWithKey(cache, id) = 1

C12_Witness ==
    \E p \in Callers :
        /\ IsSearchCall(p)
        /\ ReturnedValue(p)
        /\ resp[p] = ArrayResponse(<<rawB, rawNoId>>)
        /\ storeLog[p] = {}
        /\ result[p].value[1].off_id = idB
        /\ HasTempPrefix(result[p].value[2].off_id)

\* C13 as stated: the return does not wait for the cache writer, so a call
\* that has received an array has returned, whatever store operation of
\* its cache writer is still pending.
C13_ReturnsBeforeCacheWriter ==
    \A p \in Callers :
        (IsSearchCall(p) /\ IsArrayResp(resp[p])) => ReturnedValue(p)

\* C13 amended: the cache writer is awaited: a call returns the sequence of
\* an array only in the step that ends its cache writer (the last select or
\* insert of the writer ends), or on receiving an array in which no product
\* has an off_id or barcode, so that the writer has nothing to await.
C13_ReturnsAfterCacheWriter ==
    [][\A p \in Callers :
        (IsSearchCall(p)' /\ pc[p] # "returned" /\ ReturnedValue(p)'
            /\ IsArrayResp(resp'[p])) =>
            \/ pc[p] \in {"lookup", "insert"}
            \/ /\ pc[p] = "invoke"
               /\ \A i \in 1..Len(resp'[p].data.items) :
                      ~HasCanonicalId(resp'[p].data.items[i])]_vars

C13_Witness ==
    \E p \in Callers :
        /\ IsSearchCall(p)
        /\ ReturnedValue(p)
        /\ resp[p] = ArrayResponse(<<rawB, rawA1>>)
        /\ storeLog[p] = {}
        /\ RowsWithKey(cache, idA) = 1
        /\ RowsWithKey(cache, idB) = 1

IsMalformedResp(r) == r # NoResp /\ ~IsErrorResp(r) /\ ~IsArrayResp(r)

\* C14: an answer without error whose payload is absent or no array is
\* followed by a wait and a retry on attempts 1 and 2 and makes the call
\* raise the search-failed error on attempt 3; it never yields a returned
\* sequence nor a cache write.  An empty array is returned as the empty
\* sequence, without a wait.
C14_MalformedIsGenericError ==
    \A p \in Callers :
        /\ IsMalformedResp(resp[p]) =>
            /\ storeLog[p] = {}
            /\ idx[p] = 0
            /\ invocations[p] = attempt[p]
            /\ attempt[p] < 3 =>
                /\ pc[p] = "delay"
                /\ Len(waits[p]) = attempt[p]
            /\ attempt[p] = 3 =>
                /\ pc[p] = "raised"
                /\ result[p].kind = "raised"
                /\ result[p].message # NetworkUnavailableMsg
                /\ result[p].message = InvalidResponseMsg
        /\ resp[p] = ArrayResponse(<<>>) =>
            /\ ReturnedValue(p)
            /\ result[p].value = <<>>
            /\ Len(waits[p]) = attempt[p] - 1

C14_Witness ==
    \E p \in Callers :
        /\ resp[p] = [data |-> [isArray |-> FALSE]]
        /\ attempt[p] = 3
        /\ pc[p] = "raised"
        /\ Len(waits[p]) = 2

\* C15: once attempt k receives an array the call makes no further
\* invocation and no further wait: it has invoked the endpoint k times and
\* waited k - 1 times, and it goes on to return the sequence of that array.
C15_SuccessEndsRetries ==
    \A p \in Callers :
        IsArrayResp(resp[p]) =>
            /\ invocations[p] = attempt[p]
            /\ Len(waits[p]) = attempt[p] - 1
            /\ pc[p] \in {"lookup", "insert", "returned"}
            /\ pc[p] = "returned" =>
                /\ result[p].kind = "returned"
                /\ Len(result[p].value) = Len(resp[p].data.items)

C15_Witness ==
    \E p \in Callers :
        /\ attempt[p] = 3
        /\ ReturnedValue(p)
        /\ IsArrayResp(resp[p])
        /\ Len(resp[p].data.items) = 2
        /\ Len(waits[p]) = 2

\* every pending await of a call is eventually resumed: the endpoint
\* invocation, the backoff delay and the cache-store operations complete
Completes(p) ==
    /\ WF_vars(InvokeReturns(p, Responses, Jitters))
    /\ WF_vars(DelayElapses(p))
    /\ WF_vars(LookupReturns(p))
    /\ WF_vars(InsertReturns(p))

SpecLive == Init /\ [][Next]_vars /\ \A p \in SeqCallers : Completes(p)

\* C16: when every endpoint invocation, cache-store operation and backoff
\* delay eventually completes, a started search call eventually returns a
\* sequence or raises its error, whatever the endpoint and the store answer.
C16_SearchTerminates ==
    \A p \in SeqCallers :
        (IsSearchCall(p) /\ ~Ended(p)) ~>
            \/ ReturnedValue(p)
            \/ pc[p] = "raised" /\ result[p].kind = "raised"

C16_Witness ==
    \E p \in Callers :
        /\ IsSearchCall(p)
        /\ attempt[p] = 3
        /\ ReturnedValue(p)
        /\ Len(waits[p]) = 2
        /\ "insert_error" \in storeLog[p]
        /\ "lookup_throw" \in storeLog[p]

\* what a call holds of its own
Local(p) ==
    <<pc[p], attempt[p], invocations[p], waits[p], resp[p], idx[p],
      storeLog[p], result[p]>>

\* the result that the answer r to attempt a of a call stands for
OwnOutcome(r, a) ==
    LET message == IF IsErrorResp(r)
                   THEN SearchFailedPrefix \o r.error.message
                   ELSE InvalidResponseMsg
        networkClass ==
            \/ Includes(message, strNetwork)
            \/ Includes(message, strFailedToFetch)
            \/ Includes(message, strHTTPerror)
    IN  IF IsArrayResp(r)
        THEN [kind |-> "returned", value |-> mapResults(r.data.items, now)]
        ELSE IF IsNotFoundResp(r) \/ Includes(message, str404)
        THEN [kind |-> "returned", value |-> <<>>]
        ELSE IF networkClass
        THEN [kind |-> "raised", message |-> NetworkUnavailableMsg]
        ELSE [kind |-> "raised", message |-> message]

\* C17: the result of a search call is the one its own last answer stands
\* for, whatever the cache holds and whatever the other call does; a call
\* ends on an array, on a not-found error or on its third attempt and waits
\* only after a failed answer of its own; and no step changes what two calls
\* hold, so that the attempts of a call advance by its own steps only.
C17_CallsAreIndependent ==
    /\ [](\A p \in Callers :
            /\ (IsSearchCall(p) /\ Ended(p)) =>
                /\ result[p] = OwnOutcome(resp[p], attempt[p])
                /\ IsArrayResp(resp[p]) \/ IsNotFoundResp(resp[p])
                                        \/ attempt[p] = 3
            /\ (IsSearchCall(p) /\ pc[p] = "delay") =>
                /\ IsFailureResp(resp[p])
                /\ attempt[p] < 3
            /\ IsSearchCall(p) => invocations[p] = attempt[p])
    /\ [][\A p, q \in Callers :
            (p # q /\ Local(p)' # Local(p)) => Local(q)' = Local(q)]_vars

C17_Witness ==
    \E p, q \in Callers :
        /\ p # q
        /\ ReturnedValue(p) /\ ReturnedValue(q)
        /\ resp[p] = ArrayResponse(<<rawA2>>)
        /\ resp[q] = ArrayResponse(<<rawA2>>)
        /\ attempt[p] = 1 /\ attempt[q] = 3
        /\ storeLog[p] = {"duplicate"}
        /\ storeLog[q] = {}
        /\ CopiesIn(cacheRow(rawA1, idA), cache) = 1
        /\ result[p] = result[q]

\* the text of name and brand that the synthesizer joins
NameAndBrand(item) ==
    (IF Has(item, "name") THEN item.name ELSE strUndefined)
        \o OrText(item, "brand", <<>>)

\* C18 as stated: the identifier of every result without off_id and barcode
\* is synthesized without an error, and two such results whose name and
\* brand give distinct text, synthesized at the same reading of the clock,
\* have distinct identifiers.
C18_DistinctTextDistinctIds ==
    \A p, q \in Callers :
        (ReturnedValue(p) /\ ReturnedValue(q)
            /\ IsArrayResp(resp[p]) /\ IsArrayResp(resp[q])) =>
            \A i \in 1..Len(resp[p].data.items) :
                \A j \in 1..Len(resp[q].data.items) :
                    /\ HasTempPrefix(result[p].value[i].off_id)
                    /\ NameAndBrand(resp[p].data.items[i])
                           # NameAndBrand(resp[q].data.items[j]) =>
                           result[p].value[i].off_id # result[q].value[j].off_id

InCacheWriter(p) == IsSearchCall(p) /\ pc[p] \in {"lookup", "insert"}

\* a step that changes the cache is the insert of a call and adds one row
OnlyInsertsAddRows ==
    cache' # cache =>
        \E q \in Callers :
            /\ \/ pc[q] = "insert" /\ IsArrayResp(resp[q])
               \/ pc[q] = "mealCache"
            /\ \E row \in BagToSet(cache') : cache' = cache (+) SetToBag({row})

\* a step of the cache writer goes forward in the array or returns, and the
\* writer is entered from an invocation only
WriterRunsOnce(p) ==
    /\ InCacheWriter(p) =>
        \/ /\ InCacheWriter(p)'
           /\ resp'[p] = resp[p]
           /\ attempt'[p] = attempt[p]
           /\ idx'[p] >= idx[p]
           /\ pc'[p] = "lookup" => (idx'[p] > idx[p] \/ pc[p] = "lookup")
        \/ /\ ReturnedValue(p)'
           /\ result'[p].value = mapResults(resp[p].data.items, now)
    /\ (InCacheWriter(p)' /\ ~InCacheWriter(p)) =>
        /\ pc[p] = "invoke"
        /\ idx'[p] >= 1

\* C19: a search call that raised, or that ended on an answer that is no
\* array, has run no store operation; the cache changes only by one row
\* added by the insert of a call (of a search that holds an array, or of
\* addFoodToMeal); the cache writer is entered from an invocation that
\* answered an array, moves forward over that array and is left only by
\* returning the normalized sequence of it, so it runs once per call.
C19_CacheWrittenOnlyOnSuccess ==
    /\ [](\A p \in Callers :
            /\ InCacheWriter(p) =>
                /\ IsArrayResp(resp[p])
                /\ idx[p] \in 1..Len(resp[p].data.items)
            /\ (IsSearchCall(p) /\ Ended(p)
                    /\ (pc[p] = "raised" \/ ~IsArrayResp(resp[p]))) =>
                /\ storeLog[p] = {}
                /\ idx[p] = 0)
    /\ [][OnlyInsertsAddRows /\ \A p \in Callers : WriterRunsOnce(p)]_vars

C19_Witness ==
    \E p \in Callers :
        /\ IsSearchCall(p)
        /\ pc[p] = "raised"
        /\ attempt[p] = 3
        /\ storeLog[p] = {}
        /\ RowsWithKey(cache, idA) = 1
        /\ RowsWithKey(cache, idB) = 0

IsCreateCall(p) == pc[p] # "idle" /\ logCall[p] # NoLogCall

\* C20 as stated: the table holds at most one row for a user and a date,
\* the createMeal calls of a user for a date that returned have returned
\* the id of that row, and a call without a user has raised the
\* not-authenticated error and inserted nothing.
C20_GetOrCreate ==
    /\ \A r1, r2 \in matlogg :
           (r1.user_id = r2.user_id /\ r1.loggdatum = r2.loggdatum) => r1 = r2
    /\ \A p \in Callers :
           (IsCreateCall(p) /\ pc[p] = "returned") =>
               /\ result[p].kind = "created"
               /\ \A r \in logRows(matlogg, logCall[p].user_id,
                                     logCall[p].logDate) : r.id = result[p].id
    /\ \A p, q \in Callers :
           (IsCreateCall(p) /\ IsCreateCall(q)
               /\ pc[p] = "returned" /\ pc[q] = "returned"
               /\ logCall[p].user_id = logCall[q].user_id
               /\ logCall[p].logDate = logCall[q].logDate) =>
               result[p].id = result[q].id
    /\ \A p \in Callers :
           (IsCreateCall(p) /\ Ended(p) /\ ~Has(logCall[p], "user_id")) =>
               /\ pc[p] = "raised"
               /\ result[p].message = NotAuthenticatedMsg

====
